---- MODULE Spec2Model ----
(***************************************************************************)
(* exfat_integrity_checker.py: the baseline / diff reconciliation of       *)
(* init_db and check_db against the sqlite table `files`.                  *)
(*                                                                         *)
(* A file name is a sequence of text fragments ("._a.txt" is               *)
(* <<"._", "a.txt">>), so that str.startswith is a prefix test; a path is   *)
(* a sequence of names (its components).  The table is a set of rows; the  *)
(* connection's view (db) and the durable content (committed) differ by    *)
(* the open transaction.  One run of init_db or check_db is a sequence of  *)
(* steps: begin, one step per enumerated file, (removal,) commit, report   *)
(* and exit.  The tree changes only between runs; a file that vanishes or  *)
(* fails to read while a run is at it is the outcome of that file's step.  *)
(* The progress bar is not modelled.                                       *)
(***************************************************************************)
EXTENDS Integers, Sequences, FiniteSets, TLC

VARIABLES
    disk,         \* the tree: path -> NoFile or [data, mtime]
    clock,        \* filesystem clock, the mtime of the next write
    db,           \* rows of `files` as the open connection sees them
    committed,    \* rows of `files` durably persisted
    txn,          \* paths written since the last commit (open transaction)
    pc,           \* where the process is; "idle" when none is running
    todo,         \* enumerated, non-ignored paths the loop has not reached
    processed,    \* init_db: files hashed and upserted so far
    existing,     \* check_db: path -> hash loaded at the start of the run
    found_paths,  \* check_db
    added,        \* check_db: list
    modified,     \* check_db: list
    removed,      \* check_db: list
    loaded,       \* history: rows persisted when the current/last run began
    hashed,       \* history: paths compute_hash was called on in the run
    digests,      \* history: path -> digest compute_hash returned in the run
    errors,       \* history: paths whose step raised in the run
    store_errors, \* history: paths whose statement on the store raised
    changed,      \* history: the tree changed since the last run ended
    last          \* history: summary of the run that ended before this one

vars == <<disk, clock, db, committed, txn, pc, todo, processed, existing,
          found_paths, added, modified, removed, loaded, hashed, digests,
          errors, store_errors, changed, last>>

----------------------------------------------------------------------------
(* Bounds *)

\* distinct non-empty file contents
NumBytes == 2
\* changes made to the tree over a behaviour
MaxFsOps == 1
\* plain files of the large tree
NumBatchFiles == 12

\* (mutant) the batch is half as long
CommitEvery_Half == 10 \div 2

(* Program constant: "Commit every 10 files" *)
CommitEvery == 10

----------------------------------------------------------------------------
(* Names and paths *)

Name(s) == <<s>>

RECURSIVE NormPath(_)
\* os.path.normpath on a component list: drop ".", resolve ".."
NormPath(parts) ==
    IF parts = <<>> THEN <<>>
    ELSE LET front == NormPath(SubSeq(parts, 1, Len(parts) - 1))
             part  == parts[Len(parts)]
         IN  IF part = Name(".") THEN front
             ELSE IF part = Name("..") /\ front # <<>>
                        /\ front[Len(front)] # Name("..")
                  THEN SubSeq(front, 1, Len(front) - 1)
             ELSE Append(front, part)

\* str.startswith
StartsWith(name, pattern) ==
    /\ Len(name) >= Len(pattern)
    /\ SubSeq(name, 1, Len(pattern)) = pattern

ignored_patterns ==
    { Name(".DS_Store"), Name("._"), Name(".Spotlight-V100"), Name(".Trashes"),
      Name(".fseventsd"), Name(".TemporaryItems"), Name("Icon\r"),
      Name(".AppleDouble"), Name(".LSOverride"),
      Name(".DocumentRevisions-V100"), Name(".VolumeIcon.icns"),
      Name(".com.apple.timemachine.") }

ignored_dirs ==
    { Name(".Spotlight-V100"), Name(".Trashes"), Name(".fseventsd"),
      Name(".TemporaryItems"), Name(".AppleDouble"),
      Name(".DocumentRevisions-V100"), Name("__MACOSX") }

basename(filepath) == filepath[Len(filepath)]

should_ignore_file(filepath) ==
    LET filename   == basename(filepath)
        path_parts == NormPath(filepath)
    IN  \/ \E pattern \in ignored_patterns : StartsWith(filename, pattern)
        \/ \E ignored_dir \in ignored_dirs :
              \E i \in 1..Len(path_parts) : path_parts[i] = ignored_dir

\* the root given on the command line, as components
Root == << Name("Volumes"), Name("Drive") >>

\* os.path.join(dirpath, fname)
Join(dirpath, fname) == Append(dirpath, fname)

\* the small tree: two trackable files (one in a directory whose name looks
\* like a resource fork), a resource-fork file, a file under __MACOSX
SmallPaths ==
    { Join(Root, Name("a.txt")),
      Join(Join(Root, <<"._", "d">>), Name("b.txt")),
      Join(Root, <<"._", "a.txt">>),
      Join(Join(Root, Name("__MACOSX")), Name("c.txt")) }

\* the large tree: plain files f1 .. fN directly under the root
BatchPath(i) == Join(Root, <<"f", ToString(i)>>)
BatchPaths == { BatchPath(i) : i \in 1..NumBatchFiles }

----------------------------------------------------------------------------
(* The tree *)

NoFile == [exists |-> FALSE, data |-> <<>>, mtime |-> 0]
File(d, t) == [exists |-> TRUE, data |-> d, mtime |-> t]

\* file contents: byte strings of length at most one
Data == { <<>> } \cup { <<b>> : b \in 1..NumBytes }

\* hashlib digest of the whole content, read chunk by chunk: one distinct
\* value per content (sha256 taken as collision free)
compute_hash(path) == [algo |-> "sha256", of |-> disk[path].data]

\* os.stat
stat(path) == [st_mtime |-> disk[path].mtime, st_size |-> Len(disk[path].data)]

\* os.walk(root): every file under the root
os_walk == { full \in DOMAIN disk : disk[full].exists }

\* (mutant) the loop forgets to ask should_ignore_file
Enumerate_All == os_walk

\* the loop header of both runs: walk, join, skip what should_ignore_file says
Enumerate == { full \in os_walk : ~should_ignore_file(full) }

----------------------------------------------------------------------------
(* The table `files` (path TEXT PRIMARY KEY, hash, mtime, size) *)

Row(path, hash, st) ==
    [path |-> path, hash |-> hash, mtime |-> st.st_mtime, size |-> st.st_size]

PathsOf(table) == { r.path : r \in table }

\* (mutant) path is no key of the table: a plain INSERT
Replace_Insert(table, row) == table \cup { row }

\* REPLACE INTO files VALUES (?, ?, ?, ?), path being the PRIMARY KEY
Replace(table, row) == { r \in table : r.path # row.path } \cup { row }

\* DELETE FROM files WHERE path = ?
Delete(table, path) == { r \in table : r.path # path }

\* SELECT path, hash FROM files, as the dict {row[0]: row[1]}
SelectPathHash(table) ==
    [ p \in PathsOf(table) |-> (CHOOSE r \in table : r.path = p).hash ]

RECURSIVE SeqOf(_)
\* a list holding each element of a set once, in the order of iteration
SeqOf(S) ==
    IF S = {} THEN <<>>
    ELSE LET x == CHOOSE y \in S : TRUE IN <<x>> \o SeqOf(S \ {x})

Range(s) == { s[i] : i \in 1..Len(s) }

\* what one file's step meets: all calls succeed, os.stat raises,
\* compute_hash raises, the execute on the cursor raises, or (init_db, at
\* the end of a batch) the commit inside the try raises and leaves the
\* transaction open
Outcomes == { "ok", "stat_err", "hash_err", "db_err", "commit_err" }

\* no run, or one that did not reach its end
NoRun == [kind |-> "none", clean |-> FALSE, added |-> {}]

----------------------------------------------------------------------------
(* The environment: the tree changes between runs *)

FsWrite(p, d) ==
    /\ pc = "idle"
    /\ clock < MaxFsOps
    /\ clock' = clock + 1
    /\ disk' = [disk EXCEPT ![p] = File(d, clock + 1)]
    /\ changed' = TRUE
    /\ UNCHANGED <<db, committed, txn, pc, todo, processed, existing,
                   found_paths, added, modified, removed, loaded, hashed,
                   digests, errors, store_errors, last>>

FsDelete(p) ==
    /\ pc = "idle"
    /\ clock < MaxFsOps
    /\ disk[p].exists
    /\ clock' = clock + 1
    /\ disk' = [disk EXCEPT ![p] = NoFile]
    /\ changed' = TRUE
    /\ UNCHANGED <<db, committed, txn, pc, todo, processed, existing,
                   found_paths, added, modified, removed, loaded, hashed,
                   digests, errors, store_errors, last>>

----------------------------------------------------------------------------
(* Runs *)

\* (mutant) the table is dropped and created anew
connect_db_Fresh == {}

\* connect_db: open the store; CREATE TABLE IF NOT EXISTS keeps every row
connect_db == committed

\* the store as the connection holds it
Store == [db |-> db, committed |-> committed, txn |-> txn]

SetStore(st) ==
    /\ db' = st.db
    /\ committed' = st.committed
    /\ txn' = st.txn

\* (mutant) the connection is in autocommit mode: each statement is durable
\* at once
ExecuteReplace_Autocommit(st, row) ==
    [st EXCEPT !.db = Replace(st.db, row), !.committed = Replace(st.db, row)]

\* (mutant) the statement is never executed
ExecuteReplace_Lost(st, row) == st

\* c.execute("REPLACE INTO files VALUES (?, ?, ?, ?)", ...): the statement
\* joins the open transaction
ExecuteReplace(st, row) ==
    [st EXCEPT !.db = Replace(st.db, row), !.txn = @ \cup {row.path}]

\* (mutant) the statement is never executed
ExecuteDelete_Lost(st, path) == st

\* c.execute("DELETE FROM files WHERE path = ?", (path,))
ExecuteDelete(st, path) ==
    [st EXCEPT !.db = Delete(st.db, path), !.txn = @ \cup {path}]

\* conn.commit()
Commit(st) == [st EXCEPT !.committed = st.db, !.txn = {}]

\* (mutant) no handler: the exception leaves the loop and ends the run
except_Reraise(at) ==
    IF at = "init_walk" THEN "init_crashed" ELSE "check_crashed"

\* "except Exception as e: print(...)" around the body of either loop: the
\* message is printed and the loop goes on from where it was
except_Exception(at) == at

\* init_db up to the loop
InitBegin ==
    /\ pc = "idle"
    /\ pc' = "init_walk"
    /\ db' = connect_db
    /\ loaded' = committed
    /\ todo' = Enumerate
    /\ processed' = 0
    /\ UNCHANGED <<disk, clock, committed, txn, existing, found_paths, added,
                   modified, removed, hashed, digests, errors, store_errors, changed, last>>

\* one iteration of init_db's loop, on the file `full`, meeting outcome o
InitFile(full, o) ==
    LET stored == o \in {"ok", "commit_err"}
        st     == ExecuteReplace(Store, Row(full, compute_hash(full),
                                            stat(full)))
    IN  /\ pc = "init_walk"
        /\ full \in todo
        /\ o = "commit_err" => (processed + 1) % CommitEvery = 0
        /\ todo' = todo \ {full}
        /\ hashed' = IF o = "stat_err" THEN hashed ELSE hashed \cup {full}
        /\ digests' = IF o \in {"stat_err", "hash_err"} THEN digests
                      ELSE (full :> compute_hash(full)) @@ digests
        /\ processed' = IF stored THEN processed + 1 ELSE processed
        /\ SetStore(IF ~stored THEN Store
                    ELSE IF processed' % CommitEvery = 0 /\ o = "ok"
                         THEN Commit(st) ELSE st)
        /\ errors' = IF o = "ok" THEN errors ELSE errors \cup {full}
        /\ store_errors' = IF o \in {"db_err", "commit_err"}
                           THEN store_errors \cup {full} ELSE store_errors
        /\ pc' = IF o = "ok" THEN pc ELSE except_Exception(pc)
        /\ UNCHANGED <<disk, clock, existing, found_paths, added,
                       modified, removed, loaded, changed, last>>

\* init_db after the loop: commit, close, "Initialization complete."
InitCommit ==
    /\ pc = "init_walk"
    /\ todo = {}
    /\ SetStore(Commit(Store))
    /\ pc' = "init_done"
    /\ UNCHANGED <<disk, clock, todo, processed, existing, found_paths,
                   added, modified, removed, loaded, hashed, digests, errors, store_errors,
                   changed, last>>

\* check_db up to the loop
CheckBegin ==
    /\ pc = "idle"
    /\ pc' = "check_walk"
    /\ db' = connect_db
    /\ loaded' = committed
    /\ existing' = SelectPathHash(connect_db)
    /\ found_paths' = {}
    /\ modified' = <<>>
    /\ added' = <<>>
    /\ todo' = Enumerate
    /\ UNCHANGED <<disk, clock, committed, txn, processed, removed, hashed,
                   digests, errors, store_errors, changed, last>>

\* (mutant) found_paths = {full}: only the path seen last counts as found
AddFound_Overwrite(found, full) == {full}

\* found_paths.add(full)
AddFound(found, full) == found \cup {full}

\* "if full not in existing"
IsNew(full) == full \notin DOMAIN existing

\* (mutant) any path of the table is reported, its hash not compared
Differs_Always(full, new_hash) == full \in DOMAIN existing

\* (mutant) the comparison is not under the "else": a new path counts as
\* differing too
Differs_NoElse(full, new_hash) ==
    full \notin DOMAIN existing \/ new_hash # existing[full]

\* "else: if new_hash != existing[full]"
Differs(full, new_hash) ==
    full \in DOMAIN existing /\ new_hash # existing[full]

\* one iteration of check_db's loop, on the file `full`, meeting outcome o
CheckFile(full, o) ==
    LET new_hash == compute_hash(full)
        isNew    == IsNew(full)
        differs  == Differs(full, new_hash)
        upsert   == o # "hash_err" /\ (isNew \/ differs)
        raised   == o = "hash_err" \/ (upsert /\ o # "ok")
    IN  /\ pc = "check_walk"
        /\ full \in todo
        /\ todo' = todo \ {full}
        /\ found_paths' = AddFound(found_paths, full)
        /\ hashed' = hashed \cup {full}
        /\ digests' = IF o = "hash_err" THEN digests
                      ELSE (full :> new_hash) @@ digests
        /\ added' = IF o # "hash_err" /\ isNew THEN Append(added, full)
                    ELSE added
        /\ modified' = IF o # "hash_err" /\ differs THEN Append(modified, full)
                       ELSE modified
        /\ IF upsert /\ o = "ok"
           THEN SetStore(ExecuteReplace(Store, Row(full, new_hash, stat(full))))
           ELSE UNCHANGED <<db, committed, txn>>
        /\ errors' = IF raised THEN errors \cup {full} ELSE errors
        /\ store_errors' = IF upsert /\ o = "db_err"
                           THEN store_errors \cup {full} ELSE store_errors
        /\ pc' = IF raised THEN except_Exception(pc) ELSE pc
        /\ UNCHANGED <<disk, clock, processed, existing, removed, loaded,
                       changed, last>>

\* (mutant) found_paths.add moved below compute_hash: only digested paths
\* count as found
RemovedPaths_Digested ==
    { path \in DOMAIN existing : path \notin DOMAIN digests }

\* the removed list of check_db
RemovedPaths == { path \in DOMAIN existing : path \notin found_paths }

RECURSIVE DeleteAll(_, _)
\* the loop "for path in removed: c.execute(DELETE ...)"
DeleteAll(st, paths) ==
    IF paths = <<>> THEN st
    ELSE DeleteAll(ExecuteDelete(st, Head(paths)), Tail(paths))

\* check_db after the loop: detect removed files and delete their rows
CheckRemove ==
    /\ pc = "check_walk"
    /\ todo = {}
    /\ removed' = SeqOf(RemovedPaths)
    /\ SetStore(DeleteAll(Store, removed'))
    /\ pc' = "check_commit"
    /\ UNCHANGED <<disk, clock, todo, processed, existing,
                   found_paths, added, modified, loaded, hashed, digests,
                   errors, store_errors, changed, last>>

\* check_db: commit, close; the report is then printed from the lists
CheckCommit ==
    /\ pc = "check_commit"
    /\ SetStore(Commit(Store))
    /\ pc' = "check_report"
    /\ UNCHANGED <<disk, clock, todo, processed, existing, found_paths,
                   added, modified, removed, loaded, hashed, digests, errors, store_errors,
                   changed, last>>

\* the locals of a process that is gone
NoLocals ==
    /\ db' = committed
    /\ txn' = {}
    /\ todo' = {}
    /\ processed' = 0
    /\ existing' = <<>>
    /\ found_paths' = {}
    /\ added' = <<>>
    /\ modified' = <<>>
    /\ removed' = <<>>
    /\ hashed' = {}
    /\ digests' = <<>>
    /\ errors' = {}
    /\ store_errors' = {}

\* the process dies inside a run (killed, or an exception no handler
\* catches): the open transaction is rolled back
Crash ==
    /\ pc \in {"init_walk", "check_walk", "check_commit"}
    /\ pc' = IF pc = "init_walk" THEN "init_crashed" ELSE "check_crashed"
    /\ NoLocals
    /\ UNCHANGED <<disk, clock, committed, loaded, changed, last>>

\* the summary of the run that ends
Summary ==
    CASE pc = "init_done"    -> [kind |-> "init", clean |-> errors = {},
                                 added |-> {}]
      [] pc = "check_report" -> [kind |-> "check", clean |-> errors = {},
                                 added |-> Range(added)]
      [] OTHER               -> NoRun

\* main returns, the process exits
Exit ==
    /\ pc \in {"init_done", "check_report", "init_crashed", "check_crashed"}
    /\ pc' = "idle"
    /\ last' = Summary
    /\ changed' = FALSE
    /\ loaded' = {}
    /\ NoLocals
    /\ UNCHANGED <<disk, clock, committed>>

----------------------------------------------------------------------------
(* Specifications *)

Fresh ==
    /\ clock = 0
    /\ db = {}
    /\ committed = {}
    /\ txn = {}
    /\ pc = "idle"
    /\ todo = {}
    /\ processed = 0
    /\ existing = <<>>
    /\ found_paths = {}
    /\ added = <<>>
    /\ modified = <<>>
    /\ removed = <<>>
    /\ loaded = {}
    /\ hashed = {}
    /\ digests = <<>>
    /\ errors = {}
    /\ store_errors = {}
    /\ changed = FALSE
    /\ last = NoRun

\* a small tree written at time 0, holding the files macOS leaves behind and
\* any of the others, and no store yet
Init ==
    /\ disk \in { t \in [SmallPaths -> {NoFile, File(<<1>>, 0)}] :
                     \A p \in SmallPaths : should_ignore_file(p) => t[p].exists }
    /\ Fresh

Next ==
    \/ \E p \in DOMAIN disk, d \in Data : FsWrite(p, d)
    \/ \E p \in DOMAIN disk : FsDelete(p)
    \/ InitBegin
    \/ \E full \in todo, o \in Outcomes : InitFile(full, o)
    \/ InitCommit
    \/ CheckBegin
    \/ \E full \in todo, o \in Outcomes \ {"commit_err"} : CheckFile(full, o)
    \/ CheckRemove
    \/ CheckCommit
    \/ Crash
    \/ Exit

Spec == Init /\ [][Next]_vars

\* The large tree: every file present, listed by os.walk in name order, at
\* most one file of a run failing; init_db runs only.
InitBatch ==
    /\ disk = [p \in BatchPaths |-> File(<<1>>, 0)]
    /\ Fresh

\* the file os.walk lists next
FirstOf(S) ==
    BatchPath(CHOOSE i \in 1..NumBatchFiles :
                 /\ BatchPath(i) \in S
                 /\ \A j \in 1..(i - 1) : BatchPath(j) \notin S)

InitFileInOrder ==
    /\ todo # {}
    /\ \E o \in Outcomes :
          /\ o = "ok" \/ errors = {}
          /\ InitFile(FirstOf(todo), o)

NextBatch ==
    \/ InitBegin
    \/ InitFileInOrder
    \/ InitCommit
    \/ Crash
    \/ Exit

SpecBatch == InitBatch /\ [][NextBatch]_vars

----------------------------------------------------------------------------
(* Properties *)

RowOf(table, path) == CHOOSE r \in table : r.path = path

Occurrences(s, x) == Cardinality({ i \in 1..Len(s) : s[i] = x })

EmptyReport == added = <<>> /\ modified = <<>> /\ removed = <<>>

\* C1: init, then at once check on the unchanged tree, neither run meeting
\* a per-file error: the report is empty and the snapshot is left as init
\* committed it.  (Stated as claimed; the code keeps the rows init found in
\* the store, and check removes those whose file is gone.)
C1_RoundTrip ==
    (pc = "check_report" /\ last.kind = "init" /\ last.clean /\ ~changed
        /\ errors = {})
    => (EmptyReport /\ committed = loaded)

\* C2: after init completes the snapshot holds no path that this run did not
\* enumerate and hash successfully.  (Stated as claimed.)
C2_InitDiscards ==
    pc = "init_done" => PathsOf(committed) \subseteq DOMAIN digests

C4_Removed_Claimed ==
    pc \in {"check_commit", "check_report"}
    => Range(removed) = PathsOf(loaded) \ DOMAIN digests

\* C4 amended: removed lists, once each, the loaded snapshot's paths that the
\* walk did not enumerate as non-ignored files (whether or not their digest
\* succeeded); after the commit the snapshot holds none of them; a tracked
\* file whose digest fails is not reported removed and keeps its row.
C4_Removed ==
    /\ pc \in {"check_commit", "check_report"}
       => /\ Range(removed) = PathsOf(loaded) \ Enumerate
          /\ Len(removed) = Cardinality(Range(removed))
          /\ PathsOf(db) \cap Range(removed) = {}
    /\ pc = "check_report"
       => /\ PathsOf(committed) \cap Range(removed) = {}
          /\ \A p \in (errors \cap PathsOf(loaded)) \ DOMAIN digests :
                /\ p \notin Range(removed)
                /\ RowOf(committed, p) = RowOf(loaded, p)

\* C4 witness: a check has committed with one tracked file gone from the
\* tree and another whose digest failed
C4_Witness ==
    /\ pc = "check_report"
    /\ removed # <<>>
    /\ (errors \cap PathsOf(loaded)) \ DOMAIN digests # {}

\* C5: a non-ignored file on disk that the loaded snapshot does not hold (and
\* whose digest the run computed) is reported in added exactly once, the
\* committed snapshot holds a row for it, and a check that follows with no
\* change in between does not report it again.  (Stated as claimed; the code
\* appends to added before the os.stat calls and the execute, which may
\* raise.)
C5_Added ==
    /\ pc = "check_report"
       => \A p \in (Enumerate \ PathsOf(loaded)) \cap DOMAIN digests :
             /\ Occurrences(added, p) = 1
             /\ p \in PathsOf(committed)
    /\ (pc = "check_report" /\ last.kind = "check" /\ ~changed)
       => Range(added) \cap last.added = {}

\* C6: a tracked file whose digest differs from the loaded fingerprint is
\* reported in modified, in neither added nor removed, and after the commit
\* its stored fingerprint is the digest of this run.  (Stated as claimed; as
\* for C5 the row is written after the path is appended to modified.)
C6_Modified ==
    pc = "check_report"
    => \A p \in DOMAIN digests \cap PathsOf(loaded) :
          digests[p] # RowOf(loaded, p).hash
          => /\ p \in Range(modified)
             /\ p \notin Range(added) \cup Range(removed)
             /\ p \in PathsOf(committed)
             /\ RowOf(committed, p).hash = digests[p]

\* C7: in every state of every run, a path the ignore predicate accepts has
\* not been hashed, is in none of added, modified, removed, and has no row in
\* the store, whether or not the file is on disk.
C7_Ignored ==
    \A p \in DOMAIN disk :
        should_ignore_file(p)
        => /\ p \notin hashed
           /\ p \notin todo \cup found_paths
           /\ p \notin Range(added) \cup Range(modified) \cup Range(removed)
           /\ p \notin PathsOf(db) \cup PathsOf(committed)

\* C7 witness: a check has committed a tree that holds a file ignored by its
\* name and a file ignored by its directory, beside a file it added
C7_Witness ==
    /\ pc = "check_report"
    /\ added # <<>>
    /\ \E p \in os_walk : \E pattern \in ignored_patterns :
          StartsWith(basename(p), pattern)
    /\ \E p \in os_walk :
          /\ \A pattern \in ignored_patterns : ~StartsWith(basename(p), pattern)
          /\ should_ignore_file(p)

\* C8 as claimed: while init walks, and when it has stopped part-way, the
\* persisted snapshot holds nothing of the run.
C8_CommitOnce_Claimed ==
    pc \in {"init_walk", "init_crashed"} => committed = loaded

\* C8 amended: init issues a commit after every 10th file it has hashed and
\* stored, and once more at the end: nothing of the run is durable before
\* the 10th file is stored, from then on rows of the run are durable while
\* the walk goes on, and at every point of the walk the run's rows outside
\* the open transaction, a multiple of 10 in number, are the durable ones.
C8_CommitEveryTen ==
    /\ pc = "init_walk"
       => /\ Cardinality(txn) <= processed
          /\ (processed - Cardinality(txn)) % 10 = 0
          /\ txn \subseteq DOMAIN digests
          /\ committed = { r \in db : r.path \notin txn }
                           \cup { r \in loaded : r.path \in txn }
          /\ processed < 10 => committed = loaded
          /\ (processed >= 10 /\ errors = {}) => Cardinality(txn) = processed % 10
    /\ pc = "init_done" => (committed = db /\ txn = {})

\* C8 witness: the walk is not over and ten rows of the run are durable
C8_Witness ==
    /\ pc = "init_walk"
    /\ todo # {}
    /\ processed = 10
    /\ Cardinality(PathsOf(committed) \ PathsOf(loaded)) = 10

\* C9: the persisted snapshot is the loaded one through the whole of a check
\* run, the removal step included, and also when the run ends before its
\* commit; the one commit makes every upsert and delete of the run durable.
C9_CheckAtomic ==
    /\ pc \in {"check_walk", "check_commit", "check_crashed"}
       => committed = loaded
    /\ pc = "check_report" => (committed = db /\ txn = {})

\* C9 witness: the removed list is computed, rows are written and deleted in
\* the open transaction, and nothing is durable yet
C9_Witness ==
    /\ pc = "check_commit"
    /\ removed # <<>>
    /\ added # <<>>
    /\ PathsOf(db) \cap PathsOf(committed) = {}

C11_OneRowPerPath ==
    /\ \A r1, r2 \in db : r1.path = r2.path => r1 = r2
    /\ \A r1, r2 \in committed : r1.path = r2.path => r1 = r2

\* C11 witness: a check has upserted a path that had a row with another
\* fingerprint, and the new row is persisted
C11_Witness ==
    /\ pc = "check_report"
    /\ \E p \in PathsOf(loaded) \cap PathsOf(committed) :
          /\ p \in Range(modified)
          /\ RowOf(committed, p).hash # RowOf(loaded, p).hash

\* C12: a check run in which a statement on the store failed (store_errors:
\* an upsert raised; a failing delete or commit is the step Crash) ends as
\* failed: it never gets to commit and report.
C12_StoreFailureFatal ==
    pc = "check_report" => store_errors = {}

\* the paths on which compute_hash raised in the run
DigestFailed == { p \in errors : p \in hashed /\ p \notin DOMAIN digests }

\* the path has gone through the loop body to its end: it has a digest and,
\* in init_db, a row with it; in check_db it counts as found and is listed
\* as added or modified, or its digest is the loaded one
Classified(p) ==
    /\ p \in DOMAIN digests
    /\ pc = "init_done" => /\ p \in PathsOf(committed)
                           /\ RowOf(committed, p).hash = digests[p]
    /\ pc # "init_done" =>
          /\ p \in found_paths
          /\ \/ p \in Range(added) \cup Range(modified)
             \/ p \in DOMAIN existing /\ existing[p] = digests[p]

\* C13: a digest failure on one path does not end a run of init or check.
\* The step on which compute_hash raises leaves the run in its loop with
\* every other path still to do; and when the run is at its end (after the
\* final commit of init, at the removal / commit / report of check) no path
\* is left to do and every enumerated path that met no error is classified.
C13_DigestFailureNotFatal ==
    /\ [][ (DigestFailed' # DigestFailed /\ DigestFailed' # {})
           => (pc' = pc /\ todo' = todo \ DigestFailed') ]_vars
    /\ [](pc \in {"init_done", "check_commit", "check_report"}
          => /\ todo = {}
             /\ \A p \in Enumerate \ errors : Classified(p))

\* C13 witness: a check has committed and reports, having failed to digest
\* one path and having classified another as added
C13_Witness ==
    /\ pc = "check_report"
    /\ DigestFailed # {}
    /\ \E p \in Enumerate \ errors : p \in Range(added) /\ Classified(p)

\* C14: when init has completed, a path whose os.stat or compute_hash raised
\* in that run (it is in errors and got no digest) has no row in the
\* persisted table, whatever rows the table held when the run began.
C14_FailedOmitted ==
    pc = "init_done"
    => \A p \in errors : p \notin DOMAIN digests => p \notin PathsOf(committed)

\* the paths check_db digested and found equal to the loaded fingerprint
Unchanged ==
    { p \in DOMAIN digests \cap DOMAIN existing : digests[p] = existing[p] }

\* C15: in a check run, a path whose digest equals the loaded fingerprint
\* causes no statement on the store and is in none of added, modified,
\* removed; its row as the connection sees it, and as persisted by the
\* commit, is the loaded row: same fingerprint, mtime and size.
C15_UnchangedUntouched ==
    pc \in {"check_walk", "check_commit", "check_report"}
    => \A p \in Unchanged :
          /\ p \notin txn
          /\ p \notin Range(added) \cup Range(modified) \cup Range(removed)
          /\ p \in PathsOf(db) /\ RowOf(db, p) = RowOf(loaded, p)
          /\ pc = "check_report" => RowOf(committed, p) = RowOf(loaded, p)

\* C15 witness: a check has committed; a file rewritten with the same
\* content since the baseline (its mtime moved) is unchanged and keeps its
\* old row
C15_Witness ==
    /\ pc = "check_report"
    /\ \E p \in Unchanged :
          /\ stat(p).st_mtime # RowOf(loaded, p).mtime
          /\ RowOf(committed, p) = RowOf(loaded, p)

\* C16: the outcome of a run does not depend on the order in which the loop
\* takes the enumerated paths (any order is a behaviour here).  It is a
\* function of the loaded table, the set of enumerated paths and the
\* per-path outcomes (the digest returned, whether the step raised): at the
\* report of check, added / modified / removed as sets and the persisted
\* table are the values below, in which no order occurs; likewise the
\* persisted table after init (for trees below ten files, where no commit
\* happens inside the loop).
C16_OrderIndependent ==
    LET was       == PathsOf(loaded)
        newPaths  == { p \in DOMAIN digests : p \notin was }
        diffPaths == { p \in DOMAIN digests :
                         p \in was /\ digests[p] # RowOf(loaded, p).hash }
        gone      == was \ Enumerate
        written   == IF pc = "init_done" THEN DOMAIN digests \ errors
                     ELSE (newPaths \cup diffPaths) \ errors
        dropped   == IF pc = "init_done" THEN {} ELSE gone
        snapshot  == { r \in loaded : r.path \notin written \cup dropped }
                     \cup { Row(p, digests[p], stat(p)) : p \in written }
    IN  /\ pc = "check_report" => /\ Range(added) = newPaths
                                  /\ Range(modified) = diffPaths
                                  /\ Range(removed) = gone
        /\ pc \in {"check_report", "init_done"} => committed = snapshot

\* C16 witness: a check over two enumerated paths has committed, each path
\* with an effect of its own (one added after the other)
C16_Witness ==
    /\ pc = "check_report"
    /\ Len(added) = 2
    /\ Cardinality(PathsOf(committed)) = 2

\* C17: when a check has committed, every path it reports as added or
\* modified has a row in the persisted table whose fingerprint is the digest
\* computed in the run, also when os.stat or the REPLACE raised for that
\* path after compute_hash had returned.
C17_ReportMatchesStore ==
    pc = "check_report"
    => \A p \in Range(added) \cup Range(modified) :
          /\ p \in PathsOf(committed)
          /\ RowOf(committed, p).hash = digests[p]

\* C18: after a check that committed and met no per-file error, the paths of
\* the persisted table are exactly the enumerated, non-ignored files of the
\* tree, and each row's fingerprint is the digest computed for the path in
\* the run (for an unchanged path, the equal loaded one).
C18_SnapshotIsTree ==
    (pc = "check_report" /\ errors = {})
    => /\ PathsOf(committed) = Enumerate
       /\ DOMAIN digests = Enumerate
       /\ \A p \in Enumerate :
             /\ RowOf(committed, p).hash = digests[p]
             /\ p \in Unchanged => RowOf(committed, p) = RowOf(loaded, p)

\* C18 witness: such a check has committed, having added a path, removed
\* another and kept none as it was
C18_Witness ==
    /\ pc = "check_report" /\ errors = {}
    /\ added # <<>>
    /\ removed # <<>>
    /\ PathsOf(committed) \cap PathsOf(loaded) = {}

\* C19: in every state of a check run the lists added, modified and removed
\* hold no path twice and no path in common; added holds no path of the
\* loaded table, modified and removed hold only paths of the loaded table.
C19_ReportPartition ==
    pc \in {"check_walk", "check_commit", "check_report"}
    => /\ \A p \in Range(added) : Occurrences(added, p) = 1
       /\ \A p \in Range(modified) : Occurrences(modified, p) = 1
       /\ \A p \in Range(removed) : Occurrences(removed, p) = 1
       /\ Range(added) \cap Range(modified) = {}
       /\ Range(added) \cap Range(removed) = {}
       /\ Range(modified) \cap Range(removed) = {}
       /\ Range(added) \cap PathsOf(loaded) = {}
       /\ Range(modified) \subseteq PathsOf(loaded)
       /\ Range(removed) \subseteq PathsOf(loaded)

\* C19 witness: a check reports one path of the loaded table as modified
\* and a path outside it as added
C19_Witness ==
    /\ pc = "check_report"
    /\ \E p \in PathsOf(loaded) : p \in Range(modified)
    /\ \E p \in Enumerate \ PathsOf(loaded) : p \in Range(added)

====
